---- MODULE Spec2Model ----
(***************************************************************************)
(* ATS CV checker (streamlit_app.py): the credential lookup, the PDF text  *)
(* clean-up, the retrying analysis client analyze_cv_hf and the result     *)
(* formatter of the "Analyze CV" handler.                                  *)
(*                                                                         *)
(* Texts are sequences of tokens.  A token is one character (" " is "SP",  *)
(* a line feed is "NL", "-" is "DASH", digits and letters stand for        *)
(* themselves) or one of the three literal labels the formatter searches   *)
(* for: "ATS" is 'ATS Compliance Score:', "FB" is 'Feedback:' and "SG" is  *)
(* 'Suggestions:'.                                                         *)
(***************************************************************************)
EXTENDS Integers, Sequences, FiniteSets, TLC

VARIABLES
    secrets,          \* st.secrets["HF_API_TOKEN"], or Absent
    environ,          \* os.environ["HF_API_TOKEN"], or Absent
    HF_API_TOKEN,     \* module-level token (lines 18-23)
    configError,      \* st.error("API Token not found...") was shown (line 25)
    pc,               \* position of the script run
    caller,           \* which handler invoked analyze_cv_hf
    extracted_text,   \* result of extract_text_from_pdf (None when it failed)
    cv_text,          \* analyze_cv_hf's text after truncation
    max_retries,      \* analyze_cv_hf argument
    initial_delay,    \* analyze_cv_hf argument
    attempt,          \* loop variable of analyze_cv_hf
    trace,            \* HTTP posts and sleeps of the current call, in order
    analysis_result,  \* string returned by analyze_cv_hf
    display           \* what the handler rendered

vars == <<secrets, environ, HF_API_TOKEN, configError, pc, caller, extracted_text,
          cv_text, max_retries, initial_delay, attempt, trace, analysis_result,
          display>>

-----------------------------------------------------------------------------
(* Bounds of the exploration *)

MaxRetriesBound == 3
MaxDelayBound == 2
MaxTextLen == 1
MaxChunks == 4

(* Program constants *)

DefaultMaxRetries == 3
DefaultInitialDelay == 1
MaxChars == 4000
ScoreGood == 80
ScoreFair == 60

Absent == "<absent>"
None == <<"<None>">>

SeqsUpTo(S, n) == UNION {[1..k -> S] : k \in 0..n}

IsSpace(t) == t \in {"SP", "NL"}

-----------------------------------------------------------------------------
(* Credential lookup, lines 18-29 *)

LoadToken(s, e) ==
    IF s # Absent THEN s
    ELSE IF e # Absent THEN e ELSE ""

TokenErrorShown(s, e) ==
    s = Absent /\ LoadToken(s, e) = ""

AuthHeader(tok) == <<"Bearer", tok>>

-----------------------------------------------------------------------------
(* clean_text, lines 32-39: re.sub(r'\s+', ' ', text).strip() *)

RECURSIVE Collapse(_)
Collapse(t) ==
    IF t = <<>> THEN <<>>
    ELSE IF IsSpace(Head(t))
         THEN IF Len(t) > 1 /\ IsSpace(t[2])
              THEN Collapse(Tail(t))
              ELSE <<"SP">> \o Collapse(Tail(t))
         ELSE <<Head(t)>> \o Collapse(Tail(t))

Strip(t) ==
    LET keep == {i \in 1..Len(t) : ~IsSpace(t[i])}
    IN  IF keep = {} THEN <<>>
        ELSE LET lo == CHOOSE i \in keep : \A j \in keep : i <= j
                 hi == CHOOSE i \in keep : \A j \in keep : i >= j
             IN  SubSeq(t, lo, hi)

clean_text(text) ==
    IF text = <<>> THEN <<>> ELSE Strip(Collapse(text))

(* extract_text_from_pdf, lines 41-59: the concatenated page text, cleaned; *)
(* None when PyPDF2 raises.                                                 *)
extract_text_from_pdf(file) ==
    IF file.readable THEN clean_text(file.text) ELSE None

-----------------------------------------------------------------------------
(* Inputs *)

CvChars == {"SP", "NL", "a"}
CvTexts == SeqsUpTo(CvChars, MaxTextLen)

(* An uploaded file: PyPDF2 reads it or raises; text is what the pages yield. *)
Files == [readable : BOOLEAN, text : CvTexts]

(* test_cv_text, lines 299-325: starts and ends with line feeds and blanks. *)
SampleCV == <<"NL", "SP", "a", "NL", "SP">>

(* Texts the remote model may generate. *)
GenTexts ==
    { <<"a">>,
      <<"ATS">>,
      <<"ATS", "SP", "7", "2", "NL", "FB", "NL", "DASH", "SP", "a", "NL",
        "SG", "NL", "DASH", "SP", "b">> }

(* The JSON body of a 200 answer: valid is FALSE when it does not parse;     *)
(* elems lists the kinds of a list's elements; has_gt says that a dict body  *)
(* carries the key generated_text.                                           *)
NoBody == [valid |-> FALSE, type |-> "none", elems |-> <<>>, has_gt |-> FALSE]

Bodies ==
    { NoBody }
    \cup { [valid |-> TRUE, type |-> "list", elems |-> e, has_gt |-> FALSE] :
             e \in { <<>>, <<"dict_gt">>, <<"dict">>, <<"str">>, <<"int">> } }
    \cup { [valid |-> TRUE, type |-> "dict", elems |-> <<>>, has_gt |-> g] :
             g \in BOOLEAN }
    \cup { [valid |-> TRUE, type |-> "scalar", elems |-> <<>>, has_gt |-> FALSE] }

CarriesText(b) ==
    \/ b.type = "list" /\ b.elems # <<>> /\ b.elems[1] = "dict_gt"
    \/ b.type = "dict" /\ b.has_gt

(* What requests.post does on one attempt. *)
Answers ==
    { [kind |-> k, status |-> 0, body |-> NoBody, text |-> <<>>] :
        k \in {"timeout", "transport"} }
    \cup { [kind |-> "response", status |-> s, body |-> NoBody, text |-> <<>>] :
             s \in {503, 500} }
    \cup { [kind |-> "response", status |-> 200, body |-> b, text |-> <<>>] :
             b \in {x \in Bodies : ~CarriesText(x)} }
    \cup { [kind |-> "response", status |-> 200, body |-> b, text |-> t] :
             b \in {x \in Bodies : CarriesText(x)}, t \in GenTexts }

-----------------------------------------------------------------------------
(* analyze_cv_hf, lines 61-171 *)

ErrEmpty == <<"Error: No CV text to analyze.">>
ErrFormat == <<"Error: Unexpected API response format.">>
ErrTimeout == <<"Error: API request timed out after multiple attempts.">>
ErrHttp == <<"Error: HTTP request failed: {e}">>
ErrRequest == <<"Error analyzing CV: {e}">>
ErrUnexpected == <<"An unexpected error occurred: {e}">>
ErrMaxRetries ==
    <<"Error: Max retries exceeded. The service may be temporarily unavailable.">>

(* A check for a missing text only, which lets the empty string through. *)
IsEmptyInputNoneOnly(text) == text = None

(* line 63: if not cv_text *)
IsEmptyInput(text) == text = <<>>

(* line 67: cv_text[:4000] *)
Truncate(text) ==
    IF Len(text) > MaxChars THEN SubSeq(text, 1, MaxChars) ELSE text

(* A loop that runs one iteration more. *)
InRangeInclusive(n, mr) == n <= mr

(* line 109: for attempt in range(max_retries) *)
InRange(n, mr) == n < mr

(* A delay that grows by initial_delay instead of doubling. *)
DelayLinear(d, n) == d * (n + 1)

(* lines 121, 141, 149, 157, 165: initial_delay * (2 ** attempt) *)
Delay(d, n) == d * (2 ^ n)

(* A retry test that lets the last attempt sleep too. *)
ShouldRetryOffByOne(n, mr) == n < mr

(* lines 140, 148, 156, 164: if attempt < max_retries - 1 *)
ShouldRetry(n, mr) == n < mr - 1

PostEvent(n, tok, a) ==
    [ev |-> "post", n |-> n, auth |-> AuthHeader(tok), answer |-> a, delay |-> 0]

SleepEvent(n, d, a) ==
    [ev |-> "sleep", n |-> n, auth |-> <<>>, answer |-> a, delay |-> d]

(* Which except clause, if any, the attempt ends in: "none" when the try     *)
(* block runs to one of its own continue/return statements.                  *)
(* response.json() on a body that is not JSON raises                         *)
(* requests.exceptions.JSONDecodeError (a RequestException) in requests      *)
(* >= 2.27 and a plain ValueError before: both handlers are possible.        *)
Handlers(a) ==
    IF a.kind = "timeout" THEN {"Timeout"}
    ELSE IF a.kind = "transport" THEN {"RequestException"}
    ELSE IF a.status = 503 THEN {"none"}
    ELSE IF a.status # 200 THEN {"HTTPError"}
    ELSE IF ~a.body.valid THEN {"RequestException", "Exception"}
    ELSE IF a.body.type = "list" /\ a.body.elems # <<>> /\ a.body.elems[1] = "int"
         THEN {"Exception"}
    ELSE {"none"}

HandlerError(h) ==
    CASE h = "Timeout" -> ErrTimeout
      [] h = "HTTPError" -> ErrHttp
      [] h = "RequestException" -> ErrRequest
      [] h = "Exception" -> ErrUnexpected

(* lines 128-137: the value the try block returns on a 200 answer that       *)
(* raised nothing.                                                           *)
ParseBody(a) ==
    IF a.body.type = "list" /\ a.body.elems # <<>> /\ a.body.elems[1] = "dict_gt"
    THEN a.text
    ELSE IF a.body.type = "dict" /\ a.body.has_gt
    THEN a.text
    ELSE ErrFormat

NoDisplay ==
    [score |-> -1, band |-> "none", fb_shown |-> FALSE, feedback |-> <<>>,
     sg_shown |-> FALSE, suggestions |-> <<>>, raw_shown |-> FALSE, raw |-> <<>>,
     message |-> "none"]

(* lines 61-67 and the loop entry *)
Enter(text, mr, d, who) ==
    /\ caller' = who
    /\ max_retries' = mr
    /\ initial_delay' = d
    /\ attempt' = 0
    /\ trace' = <<>>
    /\ IF IsEmptyInput(text)
       THEN /\ cv_text' = text
            /\ analysis_result' = ErrEmpty
            /\ pc' = "returned"
       ELSE /\ cv_text' = Truncate(text)
            /\ analysis_result' = None
            /\ pc' = "attempting"

-----------------------------------------------------------------------------
(* Result formatter of the "Analyze CV" handler, lines 254-292 *)

Digits == {"0", "1", "2", "3", "4", "5", "6", "7", "8", "9"}

DigitVal ==
    ("0" :> 0) @@ ("1" :> 1) @@ ("2" :> 2) @@ ("3" :> 3) @@ ("4" :> 4) @@
    ("5" :> 5) @@ ("6" :> 6) @@ ("7" :> 7) @@ ("8" :> 8) @@ ("9" :> 9)

IsDigit(t) == t \in Digits

Contains(s, tok) == \E i \in 1..Len(s) : s[i] = tok

MinOf(S) == CHOOSE x \in S : \A y \in S : x <= y
MaxOf(S) == CHOOSE x \in S : \A y \in S : x >= y

(* First index >= i whose token is not white space (Len(s)+1 when none): the *)
(* end of a greedy \s* started at i.                                         *)
WsEnd(s, i) ==
    MinOf({j \in i..(Len(s) + 1) : j = Len(s) + 1 \/ ~IsSpace(s[j])})

(* The same for a greedy \d+ started at i. *)
DigEnd(s, i) ==
    MinOf({j \in i..(Len(s) + 1) : j = Len(s) + 1 \/ ~IsDigit(s[j])})

(* int(...) of a run of digits *)
RECURSIVE ToInt(_)
ToInt(ds) ==
    IF ds = <<>> THEN 0
    ELSE 10 * ToInt(SubSeq(ds, 1, Len(ds) - 1)) + DigitVal[ds[Len(ds)]]

(* line 258: re.search(r"ATS Compliance Score:\s*(\d+)", analysis_result);   *)
(* the set holds the start of every match, re.search takes the leftmost.     *)
ScoreStarts(s) ==
    {i \in 1..Len(s) :
        /\ s[i] = "ATS"
        /\ WsEnd(s, i + 1) <= Len(s)
        /\ IsDigit(s[WsEnd(s, i + 1)])}

score_match(s) ==
    IF ScoreStarts(s) = {} THEN <<>>
    ELSE LET i == MinOf(ScoreStarts(s))
             j == WsEnd(s, i + 1)
         IN  SubSeq(s, j, DigEnd(s, j) - 1)

(* lines 264-269 *)
ScoreBand(score) ==
    IF score >= ScoreGood THEN "success"
    ELSE IF score >= ScoreFair THEN "warning"
    ELSE "error"

(* line 272: re.search(r"Feedback:\s*\n(.+?)(?=Suggestions:)", ..., DOTALL). *)
(* A match is <<i, k>>: the label at i, the \n of the pattern at k (a line   *)
(* feed inside the white space that follows the label), and a later label    *)
(* 'Suggestions:' with at least one character between.  re.search takes the  *)
(* leftmost i and, \s* being greedy, the largest k.                          *)
FeedbackMatches(s) ==
    UNION { { <<i, k>> : k \in {x \in (i + 1)..(WsEnd(s, i + 1) - 1) :
                                  /\ s[x] = "NL"
                                  /\ \E q \in (x + 2)..Len(s) : s[q] = "SG"} } :
            i \in {x \in 1..Len(s) : s[x] = "FB"} }

(* A feedback group not bounded by the lookahead: it runs to the end. *)
feedback_section_unbounded(s) ==
    LET i == MinOf({m[1] : m \in FeedbackMatches(s)})
        k == MaxOf({m[2] : m \in {x \in FeedbackMatches(s) : x[1] = i}})
    IN  SubSeq(s, k + 1, Len(s))

(* group(1): from after the \n up to the nearest following 'Suggestions:'.   *)
feedback_section(s) ==
    LET i == MinOf({m[1] : m \in FeedbackMatches(s)})
        k == MaxOf({m[2] : m \in {x \in FeedbackMatches(s) : x[1] = i}})
        q == MinOf({x \in (k + 2)..Len(s) : s[x] = "SG"})
    IN  SubSeq(s, k + 1, q - 1)

(* line 280: re.search(r"Suggestions:\s*\n(.+?)$", ..., DOTALL): the group   *)
(* needs one character at least, and $ matches at the end of the text or     *)
(* before a line feed that ends it.                                          *)
SuggestionMatches(s) ==
    UNION { { <<i, k>> : k \in {x \in (i + 1)..(WsEnd(s, i + 1) - 1) :
                                  s[x] = "NL" /\ x + 1 <= Len(s)} } :
            i \in {x \in 1..Len(s) : s[x] = "SG"} }

suggestions_section(s) ==
    LET i == MinOf({m[1] : m \in SuggestionMatches(s)})
        k == MaxOf({m[2] : m \in {x \in SuggestionMatches(s) : x[1] = i}})
        e == IF s[Len(s)] = "NL" /\ Len(s) - 1 >= k + 1 THEN Len(s) - 1 ELSE Len(s)
    IN  SubSeq(s, k + 1, e)

(* End of the line that holds index i: the index before the next line feed.  *)
LineEnd(g, i) ==
    MinOf({j \in i..(Len(g) + 1) : j = Len(g) + 1 \/ g[j] = "NL"}) - 1

(* lines 275, 283: re.findall(r"- (.+)", section) from index pos on: every   *)
(* "- " followed by a character other than a line feed starts a match that   *)
(* runs to the end of its line; the scan goes on after the match.            *)
BulletStarts(g, pos) ==
    {j \in pos..(Len(g) - 2) :
        g[j] = "DASH" /\ g[j + 1] = "SP" /\ g[j + 2] # "NL"}

RECURSIVE FindAllFrom(_, _)
FindAllFrom(g, pos) ==
    IF BulletStarts(g, pos) = {} THEN <<>>
    ELSE LET j == MinOf(BulletStarts(g, pos))
             e == LineEnd(g, j + 2)
         IN  <<SubSeq(g, j + 2, e)>> \o FindAllFrom(g, e + 1)

findall_bullets(g) == FindAllFrom(g, 1)

(* lines 254-292: what the handler shows for analysis_result.  Nothing in    *)
(* the try block raises on a string, so the except branch of line 287 shows  *)
(* nothing more.                                                             *)
Format(s) ==
    IF Contains(s, "ATS")
    THEN LET digits == score_match(s)
             fb == FeedbackMatches(s) # {}
             sg == SuggestionMatches(s) # {}
         IN  [score |-> IF digits # <<>> THEN ToInt(digits) ELSE -1,
              band |-> IF digits # <<>> THEN ScoreBand(ToInt(digits)) ELSE "none",
              fb_shown |-> fb,
              feedback |-> IF fb THEN findall_bullets(feedback_section(s)) ELSE <<>>,
              sg_shown |-> sg,
              suggestions |-> IF sg THEN findall_bullets(suggestions_section(s))
                              ELSE <<>>,
              raw_shown |-> FALSE, raw |-> <<>>,
              message |-> "ATS Analysis Results"]
    ELSE [NoDisplay EXCEPT !.raw_shown = TRUE, !.raw = s,
                           !.message = "ATS Analysis Results"]

-----------------------------------------------------------------------------
(* The script run: state after the module-level code of lines 9-29 *)

Init ==
    /\ secrets \in {Absent, "hf_s"}
    /\ environ \in {Absent, "hf_e"}
    /\ HF_API_TOKEN = LoadToken(secrets, environ)
    /\ configError = TokenErrorShown(secrets, environ)
    /\ pc = "idle"
    /\ caller = "none"
    /\ extracted_text = None
    /\ cv_text = <<>>
    /\ max_retries = DefaultMaxRetries
    /\ initial_delay = DefaultInitialDelay
    /\ attempt = 0
    /\ trace = <<>>
    /\ analysis_result = None
    /\ display = NoDisplay

config == <<secrets, environ, HF_API_TOKEN, configError>>

(* lines 233-240, 293-294: a file is uploaded and its text extracted *)
UploadPdf(file) ==
    /\ pc = "idle"
    /\ extracted_text' = extract_text_from_pdf(file)
    /\ IF extracted_text' # None /\ extracted_text' # <<>>
       THEN /\ pc' = "uploaded"
            /\ display' = [NoDisplay EXCEPT !.message = "Text extracted successfully!"]
       ELSE /\ pc' = "done"
            /\ display' = [NoDisplay EXCEPT
                   !.message = "Failed to extract text from the PDF."]
    /\ UNCHANGED <<config, caller, cv_text, max_retries, initial_delay, attempt,
                   trace, analysis_result>>

(* lines 247-249: the "Analyze CV" button, shown only under line 239 *)
ClickAnalyzeCV ==
    /\ pc = "uploaded"
    /\ Enter(extracted_text, DefaultMaxRetries, DefaultInitialDelay, "upload")
    /\ display' = NoDisplay
    /\ UNCHANGED <<config, extracted_text>>

(* lines 298-328: the "Analyze Sample CV" button *)
ClickAnalyzeSample ==
    /\ pc = "idle"
    /\ Enter(SampleCV, DefaultMaxRetries, DefaultInitialDelay, "sample")
    /\ display' = NoDisplay
    /\ UNCHANGED <<config, extracted_text>>

(* line 61: analyze_cv_hf called with arguments of the caller's choice *)
CallAnalyze(text, mr, d) ==
    /\ pc = "idle"
    /\ Enter(text, mr, d, "direct")
    /\ UNCHANGED <<config, extracted_text, display>>

(* lines 109-169: one iteration of the loop, answered by a and ending in     *)
(* handler h                                                                 *)
Attempt(a, h) ==
    /\ pc = "attempting"
    /\ InRange(attempt, max_retries)
    /\ h \in Handlers(a)
    /\ LET posted == Append(trace, PostEvent(attempt, HF_API_TOKEN, a))
           slept == Append(posted,
                      SleepEvent(attempt, Delay(initial_delay, attempt), a))
       IN  IF h = "none" /\ a.status = 503
           THEN /\ trace' = slept
                /\ attempt' = attempt + 1
                /\ UNCHANGED <<pc, analysis_result>>
           ELSE IF h = "none"
           THEN /\ trace' = posted
                /\ analysis_result' = ParseBody(a)
                /\ pc' = "returned"
                /\ UNCHANGED attempt
           ELSE IF ShouldRetry(attempt, max_retries)
           THEN /\ trace' = slept
                /\ attempt' = attempt + 1
                /\ UNCHANGED <<pc, analysis_result>>
           ELSE /\ trace' = posted
                /\ analysis_result' = HandlerError(h)
                /\ pc' = "returned"
                /\ UNCHANGED attempt
    /\ UNCHANGED <<config, caller, extracted_text, cv_text, max_retries,
                   initial_delay, display>>

(* line 171: the loop ran out *)
Exhausted ==
    /\ pc = "attempting"
    /\ ~InRange(attempt, max_retries)
    /\ analysis_result' = ErrMaxRetries
    /\ pc' = "returned"
    /\ UNCHANGED <<config, caller, extracted_text, cv_text, max_retries,
                   initial_delay, attempt, trace, display>>

(* lines 251-292 *)
RenderAnalyzeCV ==
    /\ pc = "returned"
    /\ caller = "upload"
    /\ display' = Format(analysis_result)
    /\ pc' = "rendered"
    /\ UNCHANGED <<config, caller, extracted_text, cv_text, max_retries,
                   initial_delay, attempt, trace, analysis_result>>

(* lines 330-331 *)
RenderSample ==
    /\ pc = "returned"
    /\ caller = "sample"
    /\ display' = [NoDisplay EXCEPT !.raw_shown = TRUE, !.raw = analysis_result,
                                    !.message = "Sample Analysis Result:"]
    /\ pc' = "rendered"
    /\ UNCHANGED <<config, caller, extracted_text, cv_text, max_retries,
                   initial_delay, attempt, trace, analysis_result>>

(* The next user interaction runs the script again from the top. *)
Rerun ==
    /\ \/ pc \in {"rendered", "done"}
       \/ pc = "returned" /\ caller = "direct"
    /\ pc' = "idle"
    /\ caller' = "none"
    /\ extracted_text' = None
    /\ cv_text' = <<>>
    /\ max_retries' = DefaultMaxRetries
    /\ initial_delay' = DefaultInitialDelay
    /\ attempt' = 0
    /\ trace' = <<>>
    /\ analysis_result' = None
    /\ display' = NoDisplay
    /\ UNCHANGED config

Next ==
    \/ \E file \in Files : UploadPdf(file)
    \/ ClickAnalyzeCV
    \/ ClickAnalyzeSample
    \/ \E text \in CvTexts, mr \in 0..MaxRetriesBound, d \in 1..MaxDelayBound :
          CallAnalyze(text, mr, d)
    \/ \E a \in Answers, h \in {"none", "Timeout", "HTTPError", "RequestException",
                                "Exception"} : Attempt(a, h)
    \/ Exhausted
    \/ RenderAnalyzeCV
    \/ RenderSample
    \/ Rerun

Spec == Init /\ [][Next]_vars

-----------------------------------------------------------------------------
(* The formatter on its own: the "Analyze CV" handler right after            *)
(* analyze_cv_hf returned the text of a first, successful answer, for every  *)
(* text of a bounded family.                                                 *)

Chunks ==
    { <<"ATS">>, <<"FB">>, <<"SG">>, <<"NL">>, <<"SP">>, <<"DASH">>, <<"7">>,
      <<"a">>, <<"DASH", "SP", "a">> }

RECURSIVE Flatten(_)
Flatten(cs) ==
    IF cs = <<>> THEN <<>> ELSE Head(cs) \o Flatten(Tail(cs))

ChunkTexts == {Flatten(cs) : cs \in SeqsUpTo(Chunks, MaxChunks)}

ScoreTexts == { <<"7", "2">>, <<"9">> }
BulletTexts == { <<"a">>, <<"b">>, <<"SP", "7">>, <<"a", "SP", "DASH", "SP", "b">> }
Triples == [1..3 -> BulletTexts]

BulletLine(b) == <<"DASH", "SP">> \o b

(* 'ATS Compliance Score: <s>' / 'Feedback:' / three '- ' lines /            *)
(* 'Suggestions:' / three '- ' lines, with or without a final line feed      *)
ShapedText(sc, f, g, tail) ==
    <<"ATS", "SP">> \o sc \o <<"NL", "FB", "NL">>
      \o BulletLine(f[1]) \o <<"NL">> \o BulletLine(f[2]) \o <<"NL">>
      \o BulletLine(f[3]) \o <<"NL", "SG", "NL">>
      \o BulletLine(g[1]) \o <<"NL">> \o BulletLine(g[2]) \o <<"NL">>
      \o BulletLine(g[3]) \o tail

ShapedTexts ==
    {ShapedText(sc, f, g, tail) :
        sc \in ScoreTexts, f \in Triples, g \in Triples, tail \in {<<>>, <<"NL">>}}

FormatInputs == ChunkTexts \cup ShapedTexts

FormatInit ==
    /\ secrets = "hf_s"
    /\ environ = Absent
    /\ HF_API_TOKEN = LoadToken(secrets, environ)
    /\ configError = TokenErrorShown(secrets, environ)
    /\ pc = "returned"
    /\ caller = "upload"
    /\ extracted_text = <<"a">>
    /\ cv_text = <<"a">>
    /\ max_retries = DefaultMaxRetries
    /\ initial_delay = DefaultInitialDelay
    /\ attempt = 0
    /\ analysis_result \in FormatInputs
    /\ trace = <<PostEvent(0, HF_API_TOKEN,
                   [kind |-> "response", status |-> 200,
                    body |-> [valid |-> TRUE, type |-> "list",
                              elems |-> <<"dict_gt">>, has_gt |-> FALSE],
                    text |-> analysis_result])>>
    /\ display = NoDisplay

FormatNext == RenderAnalyzeCV

FormatSpec == FormatInit /\ [][FormatNext]_vars

-----------------------------------------------------------------------------
(* Vocabulary of the properties *)

IsPost(e) == e.ev = "post"
IsSleep(e) == e.ev = "sleep"

Posts == SelectSeq(trace, IsPost)
Sleeps == SelectSeq(trace, IsSleep)
Calls == Len(Posts)

Returned == pc \in {"returned", "rendered"}
InCall == pc \in {"attempting", "returned", "rendered"}

WhitespaceOnly(t) == \A i \in 1..Len(t) : IsSpace(t[i])

Is503(a) == a.kind = "response" /\ a.status = 503
IsTimeout(a) == a.kind = "timeout"

(* A 200 answer whose body has neither expected shape. *)
Malformed(a) == a.kind = "response" /\ a.status = 200 /\ ~CarriesText(a.body)

FirstThree503 == Calls >= 3 /\ \A k \in 1..3 : Is503(Posts[k].answer)

-----------------------------------------------------------------------------
(* C1, as stated: with max_retries = 3, after three answers 503 analyze has  *)
(* made a fourth call when it returns, and returns the generated text.       *)
C1_FourthCallAfterThree503 ==
    (Returned /\ max_retries = 3 /\ FirstThree503)
        => (Calls = 4 /\ analysis_result \in GenTexts)

(* C1, amended: with max_retries = 3, three answers 503 in a row use up the  *)
(* three attempts: analyze makes exactly 3 calls, waits initial_delay * 1,   *)
(* * 2 and * 4 after them and returns the 'Max retries exceeded' error.      *)
C1_Three503UseUpAttempts ==
    (Returned /\ max_retries = 3 /\ FirstThree503)
        => /\ Calls = 3
           /\ analysis_result = ErrMaxRetries
           /\ Len(Sleeps) = 3
           /\ \A k \in 1..3 : Sleeps[k].delay = initial_delay * (2 ^ (k - 1))

C1_Witness ==
    /\ pc = "rendered" /\ caller = "sample"
    /\ max_retries = 3 /\ FirstThree503
    /\ display.raw = ErrMaxRetries

(* C2, as stated: a 200 answer with a body of unexpected shape ends the call *)
(* at once: it is the last event of the trace, the loop is left and the      *)
(* result is the 'unexpected response format' message.                       *)
C2_MalformedNeverRetried ==
    \A k \in 1..Len(trace) :
        (IsPost(trace[k]) /\ Malformed(trace[k].answer))
            => /\ k = Len(trace)
               /\ pc # "attempting"
               /\ analysis_result = ErrFormat

(* C3, as stated: a call whose text is empty or white space only returns the *)
(* EmptyInput error and posts nothing.                                       *)
C3_BlankTextShortCircuits ==
    (InCall /\ WhitespaceOnly(cv_text))
        => (pc # "attempting" /\ trace = <<>> /\ analysis_result = ErrEmpty)

(* C3, amended: a call whose text is empty returns the EmptyInput error and  *)
(* posts nothing; and the upload flow never hands analyze a text that is     *)
(* empty or white space only (clean_text and line 239 come first).           *)
C3_EmptyTextShortCircuits ==
    /\ (InCall /\ cv_text = <<>>)
          => (pc # "attempting" /\ trace = <<>> /\ analysis_result = ErrEmpty)
    /\ (InCall /\ caller = "upload") => ~WhitespaceOnly(cv_text)

C3_Witness ==
    /\ pc = "returned" /\ caller = "direct" /\ cv_text = <<>>
    /\ max_retries >= 1
    /\ analysis_result = ErrEmpty /\ trace = <<>>

(* C4, as stated: while the credential is in neither store, the              *)
(* configuration error is shown and no analysis request is posted.           *)
C4_NoPostWithoutCredential ==
    (secrets = Absent /\ environ = Absent)
        => (configError /\ \A k \in 1..Len(trace) : ~IsPost(trace[k]))

(* C5: for max_retries >= 1, a call whose every attempt timed out never      *)
(* makes more than max_retries calls, and returns after exactly max_retries  *)
(* calls with the timeout error.                                             *)
C5_TimeoutsUseExactlyMaxRetries ==
    (InCall /\ max_retries >= 1 /\ \A k \in 1..Calls : IsTimeout(Posts[k].answer))
        => /\ Calls <= max_retries
           /\ (Returned /\ Calls >= 1)
                 => (Calls = max_retries /\ analysis_result = ErrTimeout)

C5_Witness ==
    /\ pc = "returned" /\ caller = "direct" /\ max_retries = 2
    /\ Calls = 2 /\ \A k \in 1..Calls : IsTimeout(Posts[k].answer)
    /\ analysis_result = ErrTimeout

(* C6: every sleep comes right after the post of the same attempt n and      *)
(* lasts initial_delay * 2^n, whatever that attempt's answer; the sleeps of  *)
(* one call are initial_delay, 2 * initial_delay, 4 * initial_delay, ...     *)
C6_ExactDoubling ==
    /\ \A k \in 1..Len(trace) :
          IsSleep(trace[k])
            => /\ k > 1
               /\ IsPost(trace[k - 1])
               /\ trace[k - 1].n = trace[k].n
               /\ trace[k].delay = initial_delay * (2 ^ trace[k].n)
    /\ \A j \in 1..Len(Sleeps) : Sleeps[j].delay = initial_delay * (2 ^ (j - 1))

C6_Witness ==
    /\ initial_delay = 2
    /\ Len(Sleeps) = 3
    /\ IsTimeout(Sleeps[1].answer)
    /\ Sleeps[2].answer.kind = "transport"
    /\ Is503(Sleeps[3].answer)
    /\ Sleeps[3].delay = 8

(* C10, as stated: no sleep comes after the last HTTP call: when analyze has *)
(* returned, the last event of its trace, if any, is a post.                 *)
C10_NoSleepAfterLastCall ==
    (Returned /\ trace # <<>>) => IsPost(trace[Len(trace)])

-----------------------------------------------------------------------------
(* Reading a text line by line, for the formatter's properties *)

RECURSIVE SplitLines(_)
SplitLines(t) ==
    IF ~Contains(t, "NL") THEN <<t>>
    ELSE LET i == MinOf({j \in 1..Len(t) : t[j] = "NL"})
         IN  <<SubSeq(t, 1, i - 1)>> \o SplitLines(SubSeq(t, i + 1, Len(t)))

StartsWithDash(l) == Len(l) >= 2 /\ l[1] = "DASH" /\ l[2] = "SP"
AfterDash(l) == SubSeq(l, 3, Len(l))

RECURSIVE AfterDashes(_)
AfterDashes(ls) ==
    IF ls = <<>> THEN <<>> ELSE <<AfterDash(Head(ls))>> \o AfterDashes(Tail(ls))

(* A bullet line of a well-formed response: "- " and a text that is not      *)
(* empty and holds none of the three labels.                                 *)
IsBulletLine(l) ==
    /\ StartsWithDash(l)
    /\ Len(l) >= 3
    /\ \A j \in 3..Len(l) : l[j] \notin {"ATS", "FB", "SG"}

IsScoreLine(l) ==
    /\ Len(l) >= 3
    /\ l[1] = "ATS" /\ l[2] = "SP"
    /\ \A j \in 3..Len(l) : IsDigit(l[j])

(* 'ATS Compliance Score: <s>' / 'Feedback:' / three '- ' lines /            *)
(* 'Suggestions:' / three '- ' lines, the last line with or without its line *)
(* feed                                                                      *)
WellFormed(t) ==
    LET L == SplitLines(t)
    IN  /\ Len(L) \in {9, 10}
        /\ Len(L) = 10 => L[10] = <<>>
        /\ IsScoreLine(L[1])
        /\ L[2] = <<"FB">>
        /\ \A i \in 3..5 : IsBulletLine(L[i])
        /\ L[6] = <<"SG">>
        /\ \A i \in 7..9 : IsBulletLine(L[i])

(* The feedback the claim describes: the lines beginning with "- " that lie  *)
(* after the first 'Feedback:' and before the next 'Suggestions:' or, when   *)
(* there is none, the end of the text.                                       *)
ClaimedFeedback(t) ==
    LET i == MinOf({j \in 1..Len(t) : t[j] = "FB"})
        stop == MinOf({q \in (i + 1)..(Len(t) + 1) : q = Len(t) + 1 \/ t[q] = "SG"})
        L == SplitLines(SubSeq(t, i + 1, stop - 1))
    IN  AfterDashes(SelectSeq(Tail(L), StartsWithDash))

NothingExtracted ==
    display.score = -1 /\ display.feedback = <<>> /\ display.suggestions = <<>>

-----------------------------------------------------------------------------
(* C7, as stated: for a result that is not empty, whenever no score, no      *)
(* feedback and no suggestion was extracted, the raw text is displayed.      *)
C7_RawShownWhenNothingExtracted ==
    (pc = "rendered" /\ caller = "upload" /\ analysis_result # <<>>
       /\ NothingExtracted)
        => (display.raw_shown /\ display.raw = analysis_result)

(* C8, as stated: a response with a 'Feedback:' section and no               *)
(* 'Suggestions:' label yields the bullets of that section as feedback.      *)
C8_FeedbackWithoutSuggestions ==
    (pc = "rendered" /\ caller = "upload"
       /\ Contains(analysis_result, "ATS") /\ Contains(analysis_result, "FB")
       /\ ~Contains(analysis_result, "SG"))
        => display.feedback = ClaimedFeedback(analysis_result)

====
